---- MODULE Spec2Model ----
(***************************************************************************)
(* Model of idaes_connectivity/excalidraw_model.py: Diagram.from_svg, the  *)
(* translation of a rendered SVG diagram into an Excalidraw scene, and the *)
(* part of main() that writes the scene.                                   *)
(*                                                                         *)
(* One action models one iteration of the main loop (one child of the      *)
(* <svg> canvas).  The document is chosen child by child: `doc` is the     *)
(* prefix of the document consumed so far.                                 *)
(*                                                                         *)
(* Units.  Python computes label and arrow geometry in floating point      *)
(* (halves appear through `/ 2`, `* 1.5`).  Every coordinate of the model, *)
(* in the input attributes and in the scene elements, is an integer count  *)
(* of HALF pixels, so that all these values are exact.  HP(n) is n pixels. *)
(*                                                                         *)
(* Identifiers.  _element_id draws 21 random characters out of 62; the     *)
(* model allocates them from a counter (no two draws collide).  None is    *)
(* NoId (0) for an id-valued field and <<>> for a list or optional value.  *)
(***************************************************************************)
EXTENDS Integers, Sequences, FiniteSets, TLC

VARIABLES
    pc,             \* "start", "loop", "returned", "written", "failed"
    err,            \* which raise ended the run ("none" while it runs)
    doc,            \* children of <svg> consumed so far, in document order
    svg_xc_map,     \* group id attribute -> allocated element id
    shape_bounds,   \* element id -> Bounds
    shape_elt_map,  \* element id -> position in `elements` of the element dict
    bounds,         \* the local `bounds`: <<>> while unbound, else <<Bounds>>
    elements,       \* model.elements
    origin,         \* origin[k]: index in doc of the child that appended elements[k]
    files,          \* model.files: file id -> data URL
    nextId,         \* number of identifiers drawn so far by _element_id
    outfile         \* <<>> until main writes; then <<the elements written>>

vars == <<pc, err, doc, svg_xc_map, shape_bounds, shape_elt_map, bounds,
          elements, origin, files, nextId, outfile>>

\* ------------------------------------------------------------------ bounds
\* Longest document (number of children of <svg>) explored.
MaxItems == 4

\* ------------------------------------------------------------- constants
margin == 4
DefaultFontSize == 12
MinPathItems == 10

NoId == 0
HP(n) == 2 * n

\* ---------------------------------------------------------- pure helpers
Min(S) == CHOOSE m \in S : \A k \in S : m <= k
Abs(n) == IF n < 0 THEN -n ELSE n

\* int(float(s)): the attribute value s, given in half pixels, truncated
\* toward zero to whole pixels.
IntOfFloat(h) == IF h >= 0 THEN h \div 2 ELSE -((-h) \div 2)

\* float(token) for the tokens of path data; a token outside the table is
\* not a number and float raises ValueError.  Values are in half pixels.
FloatTable ==
    [t \in {"0", "10", "20.5", "30", "-5", "40", "7.5", "60"} |->
        CASE t = "0"    -> 0
          [] t = "10"   -> 20
          [] t = "20.5" -> 41
          [] t = "30"   -> 60
          [] t = "-5"   -> -10
          [] t = "40"   -> 80
          [] t = "7.5"  -> 15
          [] t = "60"   -> 120]
IsFloat(t) == t \in DOMAIN FloatTable
Float(t) == FloatTable[t]

\* re.search(r"font-size:\s*(\d+)px", style): <<n>> on a match, <<>> on none.
FontSizeMatch(style) ==
    CASE style = "text-anchor:middle;font-size:16px" -> <<16>>
      [] style = "font-size: 8px"                    -> <<8>>
      [] style = "font-size:16pt"                    -> <<>>
      [] style = "font-size:px"                      -> <<>>
      [] style = ""                                  -> <<>>
      [] OTHER                                       -> <<>>

FontSize(style) ==
    IF FontSizeMatch(style) # <<>> THEN FontSizeMatch(style)[1] ELSE DefaultFontSize

\* re.split(r"[, ]+", s) on a string given as its lexemes: "," and " " are
\* the separator characters, any other lexeme is a run of other characters.
\* A separator run at either end yields an empty first or last item, and the
\* empty string yields [""].
IsSep(c) == c \in {",", " "}
RECURSIVE SplitFrom(_, _, _, _)
SplitFrom(s, i, cur, acc) ==
    IF i > Len(s) THEN Append(acc, cur)
    ELSE IF IsSep(s[i])
         THEN IF i > 1 /\ IsSep(s[i - 1])
              THEN SplitFrom(s, i + 1, cur, acc)
              ELSE SplitFrom(s, i + 1, "", Append(acc, cur))
         ELSE SplitFrom(s, i + 1, s[i], acc)
ReSplit(s) == SplitFrom(s, 1, "", <<>>)

\* --------------------------------------------------------- the document
\* An element inside a shape container.  x, y, width, height are the raw
\* attribute values, in half pixels.
RectElt(x, y, w, h) ==
    [tag |-> "rect", x |-> x, y |-> y, width |-> w, height |-> h, href |-> ""]
ImageElt(x, y, w, h, data) ==
    [tag |-> "image", x |-> x, y |-> y, width |-> w, height |-> h, href |-> data]
TitleElt ==
    [tag |-> "title", x |-> 0, y |-> 0, width |-> 0, height |-> 0, href |-> ""]

\* A child of a top-level group.  d is <<>> when the attribute is absent
\* and <<lexemes>> when it is present.
ShapeG(elts) == [tag |-> "g", class |-> "shape", elts |-> elts, style |-> "", d |-> <<>>]
TextE(style) == [tag |-> "text", class |-> "", elts |-> <<>>, style |-> style, d |-> <<>>]
PathE(d)     == [tag |-> "path", class |-> "", elts |-> <<>>, style |-> "", d |-> d]

\* A child of <svg>.  id is the id attribute as its lexemes.
Group(id, children) == [tag |-> "g", id |-> id, children |-> children]
StyleItem == [tag |-> "style", id |-> <<>>, children |-> <<>>]

Names == {"A", "B"}
PlainId(n) == <<n>>
EdgeId(s, t) == <<"(", s, " ", "->", " ", t, ")", "[0]">>
TightEdgeId(s, t) == <<"(", s, "->", t, ")">>
BareEdgeId(s, t) == <<s, " ", "->", " ", t>>

\* Path data, as lexemes: <<>> is a <path> without a d attribute.
Cubic10 == <<"M", " ", "10", " ", "20.5", " ", "C", " ", "30", " ", "-5", " ",
             "40", ",", " ", "7.5", " ", "60", " ", "0">>
Cubic12 == Cubic10 \o <<" ", "20.5", " ", "30">>
GoodPathData == {<<>>, <<Cubic10>>, <<Cubic12>>}
BadPathData ==
    { <<<<>>>>,                                \* d=""
      <<<<"M", " ", "10", " ", "20.5">>>>,     \* too short
      <<<<" ">> \o Cubic10>>,                  \* leading blank: first item ""
      <<<<"L">> \o Tail(Cubic10)>>,            \* item 0 is not M
      <<[Cubic10 EXCEPT ![7] = "L"]>>,         \* item 3 is not C
      <<[Cubic10 EXCEPT ![3] = "x"]>> }        \* a coordinate that is no number

\* The contents of unit groups.
RectLabel ==
    <<ShapeG(<<RectElt(81, -3, HP(10), 19)>>), TextE("text-anchor:middle;font-size:16px")>>
SmallImageLabel ==
    <<ShapeG(<<ImageElt(0, HP(5), HP(20), HP(8), "data:1")>>), TextE("font-size:16pt")>>
ImageLabel ==
    <<ShapeG(<<ImageElt(81, -3, HP(10), 19, "data:2")>>), TextE("font-size: 8px")>>
FirstOfThreeThenEmptyShape ==
    <<ShapeG(<<TitleElt, RectElt(0, 0, HP(20), HP(8)), ImageElt(0, 0, 0, 0, "data:1")>>),
      ShapeG(<<TitleElt>>)>>
LabelOnly == <<TextE("")>>
EmptyGroup == <<>>
EmptyShape == <<ShapeG(<<TitleElt>>)>>
RectAndImage ==
    <<ShapeG(<<RectElt(0, 0, HP(20), HP(8))>>),
      ShapeG(<<ImageElt(81, -3, HP(10), 19, "data:2")>>), TextE("")>>

UnitGroups ==
    {Group(PlainId("A"), c) :
        c \in {RectLabel, SmallImageLabel, LabelOnly, RectAndImage, EmptyShape}}
    \cup
    {Group(PlainId("B"), c) :
        c \in {ImageLabel, FirstOfThreeThenEmptyShape, EmptyGroup}}

EdgeGroups ==
    {Group(EdgeId("A", "B"), <<PathE(d)>>) : d \in GoodPathData \cup BadPathData}
    \cup {Group(EdgeId("A", "A"), <<PathE(<<>>)>>),
          Group(TightEdgeId("B", "A"), <<PathE(<<>>)>>)}

\* Groups outside the input convention: other spellings of the id, a path in
\* a group with a plain id, a group that is unit and edge at once.
OddGroups ==
    { Group(BareEdgeId("A", "B"), <<PathE(<<Cubic10>>)>>),
      Group(PlainId("A"), <<PathE(<<Cubic10>>)>>),
      Group(EdgeId("A", "B"),
            <<ShapeG(<<RectElt(0, 0, HP(20), HP(8))>>), TextE(""), PathE(<<Cubic10>>)>>) }
Groups == UnitGroups \cup EdgeGroups \cup OddGroups

\* ------------------------------------------------- classifying one group
\* The first <rect> or <image> of a shape container (the inner loop with its
\* two breaks): <<>> when there is none, else <<elt>>.
FirstShape(elts) ==
    LET hits == {i \in 1..Len(elts) : elts[i].tag \in {"rect", "image"}}
    IN  IF hits = {} THEN <<>> ELSE <<elts[Min(hits)]>>

\* The loop over the children of a group.  g_rect, g_line, g_text, g_image
\* are <<>> for None; raised is the ValueError of an empty shape container.
NothingFound ==
    [g_rect |-> <<>>, g_line |-> <<>>, g_text |-> <<>>, g_image |-> <<>>, raised |-> FALSE]

RECURSIVE ScanFrom(_, _, _)
ScanFrom(children, i, acc) ==
    IF i > Len(children) THEN acc
    ELSE LET sub == children[i] IN
         IF sub.tag = "g" /\ sub.class = "shape"
         THEN LET f == FirstShape(sub.elts)
                  r  == IF f # <<>> /\ f[1].tag = "rect" THEN f ELSE acc.g_rect
                  im == IF f # <<>> /\ f[1].tag = "image" THEN f ELSE acc.g_image
              IN  IF r = <<>> /\ im = <<>>
                  THEN [acc EXCEPT !.raised = TRUE]
                  ELSE ScanFrom(children, i + 1, [acc EXCEPT !.g_rect = r, !.g_image = im])
         ELSE IF sub.tag = "text"
         THEN ScanFrom(children, i + 1, [acc EXCEPT !.g_text = <<sub>>])
         ELSE IF sub.tag = "path"
         THEN ScanFrom(children, i + 1, [acc EXCEPT !.g_line = <<sub>>])
         ELSE ScanFrom(children, i + 1, acc)

Scan(item) == ScanFrom(item.children, 1, NothingFound)

\* Bounds(*[int(float(elt.get(c))) for c in ("x", "y", "width", "height")]),
\* in whole pixels.
Bounds(e) ==
    [x |-> IntOfFloat(e.x), y |-> IntOfFloat(e.y),
     width |-> IntOfFloat(e.width), height |-> IntOfFloat(e.height)]

\* The local `bounds` once the rect and image blocks have run: the image's
\* when there is one, else the rectangle's, else what an earlier iteration
\* left (the name is function-scoped).
BoundsAfter(sc) ==
    IF sc.g_image # <<>> THEN <<Bounds(sc.g_image[1])>>
    ELSE IF sc.g_rect # <<>> THEN <<Bounds(sc.g_rect[1])>>
    ELSE bounds

\* re.search(r"\((\S+)\s*->\s*(\S+)\).*", item_id) on the lexemes of the id:
\* <<>> for no match, else <<group(1), group(2)>>.  A name is one lexeme.
IsNameLexeme(c) == c \notin {"(", ")", "->", " "}
SkipBlanks(id, i) ==
    LET rest == {j \in i..Len(id) : id[j] # " "}
    IN  IF rest = {} THEN Len(id) + 1 ELSE Min(rest)
MatchAt(id, i) ==
    LET a == SkipBlanks(id, i + 2)
        b == SkipBlanks(id, a + 1)
    IN  IF /\ id[i] = "("
           /\ i + 1 <= Len(id) /\ IsNameLexeme(id[i + 1])
           /\ a <= Len(id) /\ id[a] = "->"
           /\ b + 1 <= Len(id) /\ IsNameLexeme(id[b]) /\ id[b + 1] = ")"
        THEN <<id[i + 1], id[b]>>
        ELSE <<>>
EndpointMatch(id) ==
    LET hits == {i \in 1..Len(id) : MatchAt(id, i) # <<>>}
    IN  IF hits = {} THEN <<>> ELSE MatchAt(id, Min(hits))

\* The identifiers an iteration draws with _element_id, in the order of the
\* calls: xc_id, text_id, line_id, group_id.
HasGroupId(sc) == sc.g_text # <<>> /\ sc.g_rect = <<>> /\ sc.g_image # <<>>
XcId == nextId + 1
TextId == nextId + 2
LineId(sc) == nextId + 2 + (IF sc.g_text # <<>> THEN 1 ELSE 0)
GroupId(sc) == nextId + 3 + (IF sc.g_line # <<>> THEN 1 ELSE 0)
IdsDrawn(sc) ==
    1 + (IF sc.g_text # <<>> THEN 1 ELSE 0) + (IF sc.g_line # <<>> THEN 1 ELSE 0)
      + (IF HasGroupId(sc) THEN 1 ELSE 0)

\* svg_xc_map after line 108, and the two shape maps after lines 166-167
\* and 216-217 (position: where the element dict will sit in model.elements).
HasShape(sc) == sc.g_rect # <<>> \/ sc.g_image # <<>>
MapAfter(item) == (item.id :> XcId) @@ svg_xc_map
ShapeBoundsAfter(sc) ==
    IF HasShape(sc) THEN (XcId :> BoundsAfter(sc)[1]) @@ shape_bounds ELSE shape_bounds
ShapePos(sc) ==
    Len(elements) + (IF sc.g_rect # <<>> /\ sc.g_image # <<>> THEN 2 ELSE 1)
ShapeEltMapAfter(sc) ==
    IF HasShape(sc) THEN (XcId :> ShapePos(sc)) @@ shape_elt_map ELSE shape_elt_map

\* The path items float() is applied to, in the order of lines 313-324.
FloatPositions(n) == <<2, 3, 9, 10, 5, 6, n - 1, n>>

\* (mutant) the check of the first item, "M", left out.
LineErrorWithoutMoveTo(item, sc) ==
    LET m     == EndpointMatch(item.id)
        names == MapAfter(item)
        d     == sc.g_line[1].d
        toks  == ReSplit(d[1])
    IN  IF m = <<>> THEN "NoEndpoints"
        ELSE IF <<m[1]>> \notin DOMAIN names \/ <<m[2]>> \notin DOMAIN names
        THEN "UnresolvedReference"
        ELSE LET shapes == DOMAIN ShapeBoundsAfter(sc)
                 noShape == names[<<m[1]>>] \notin shapes \/ names[<<m[2]>>] \notin shapes
             IN  IF d = <<>> THEN (IF noShape THEN "NoShape" ELSE "none")
                 ELSE IF Len(toks) < MinPathItems THEN "PathFormat"
                 ELSE IF toks[4] # "C" THEN "PathFormat"
                 ELSE IF \E k \in 1..8 : ~IsFloat(toks[FloatPositions(Len(toks))[k]])
                 THEN "FloatFormat"
                 ELSE IF noShape THEN "NoShape" ELSE "none"

\* The exception that ends the iteration on `item`, "none" when it completes.
LineError(item, sc) ==
    LET m     == EndpointMatch(item.id)
        names == MapAfter(item)
        d     == sc.g_line[1].d
        toks  == ReSplit(d[1])
    IN  IF m = <<>> THEN "NoEndpoints"
        ELSE IF <<m[1]>> \notin DOMAIN names \/ <<m[2]>> \notin DOMAIN names
        THEN "UnresolvedReference"
        ELSE LET shapes == DOMAIN ShapeBoundsAfter(sc)
                 noShape == names[<<m[1]>>] \notin shapes \/ names[<<m[2]>>] \notin shapes
             IN  IF d = <<>> THEN (IF noShape THEN "NoShape" ELSE "none")
                 ELSE IF Len(toks) < MinPathItems THEN "PathFormat"
                 ELSE IF toks[1] # "M" THEN "PathFormat"
                 ELSE IF toks[4] # "C" THEN "PathFormat"
                 ELSE IF \E k \in 1..8 : ~IsFloat(toks[FloatPositions(Len(toks))[k]])
                 THEN "FloatFormat"
                 ELSE IF noShape THEN "NoShape" ELSE "none"

GroupError(item) ==
    LET sc == Scan(item)
    IN  IF sc.raised THEN "MissingShape"
        ELSE IF sc.g_text # <<>> /\ BoundsAfter(sc) = <<>> THEN "UnboundLocal"
        ELSE IF sc.g_line # <<>> THEN LineError(item, sc)
        ELSE "none"

\* ------------------------------------------------------ building elements
\* The fields of an element dict that the translation computes (the fixed
\* style fields are left out).  Geometry is in half pixels.
Elt(type, id, x, y, w, h) ==
    [type |-> type, id |-> id, x |-> x, y |-> y, width |-> w, height |-> h,
     points |-> <<>>, groupIds |-> <<>>, boundElements |-> <<>>,
     containerId |-> NoId, fileId |-> <<>>, fontSize |-> 0,
     startBinding |-> NoId, endBinding |-> NoId]

\* _image_id: the SHA-1 of the data URL, kept symbolic.
ImageId(data) == <<"sha1", data>>

ShapeElt(type, id, b) == Elt(type, id, HP(b.x), HP(b.y), HP(b.width), HP(b.height))

\* "y": bounds.y + (bounds.height / 2) - margin - (font_size / 2)
LabelY(b, font_size) == HP(b.y) + b.height - HP(margin) - font_size

TextElt(id, b, font_size) ==
    [Elt("text", id, HP(b.x), LabelY(b, font_size), HP(b.width + font_size), 3 * font_size)
        EXCEPT !.fontSize = font_size]

\* Lines 375-383: the label bound to its rectangle, or grouped with its
\* image and moved below it.  Returns <<rect_elt, image_elt, text_elt>>,
\* each <<>> or <<elt>>.
\* (mutant) the shift without the half font size.
ShiftedYWithoutFont(y, image_height, font_size) == y + image_height \div 2
ShiftedY(y, image_height, font_size) == y + image_height \div 2 + font_size
BoundText(rect_elt, text_elt) ==
    <<[rect_elt EXCEPT !.boundElements = Append(@, [type |-> "text", id |-> text_elt.id])],
      [text_elt EXCEPT !.containerId = rect_elt.id]>>
GroupedText(image_elt, text_elt, group_id) ==
    <<[image_elt EXCEPT !.groupIds = <<group_id>>],
      [text_elt EXCEPT !.groupIds = <<group_id>>,
                       !.y = ShiftedY(@, image_elt.height, text_elt.fontSize)]>>
Pair(r, i, t, group_id) ==
    IF t # <<>> /\ r # <<>>
    THEN LET p == BoundText(r[1], t[1]) IN <<<<p[1]>>, i, <<p[2]>>>>
    ELSE IF t # <<>> /\ i # <<>>
    THEN LET p == GroupedText(i[1], t[1], group_id) IN <<r, <<p[1]>>, <<p[2]>>>>
    ELSE <<r, i, t>>

\* Lines 286-324: the arrow's start and end bounds and its point list.
StraightLine(start_bounds, end_bounds) ==
    LET dx == end_bounds.x - start_bounds.x
        dy == end_bounds.y - start_bounds.y
        startx == IF dx > 0 THEN start_bounds.width ELSE 0
    IN  [sx |-> HP(start_bounds.x), sy |-> HP(start_bounds.y),
         ex |-> HP(end_bounds.x), ey |-> HP(end_bounds.y),
         points |-> << <<HP(startx), start_bounds.height>>, <<HP(dx), HP(dy)>> >>]
CubicPath(toks) ==
    LET n  == Len(toks)
        sx == Float(toks[2])
        sy == Float(toks[3])
    IN  [sx |-> sx, sy |-> sy, ex |-> Float(toks[9]), ey |-> Float(toks[10]),
         points |-> << <<0, 0>>,
                       <<Float(toks[5]) - sx, Float(toks[6]) - sy>>,
                       <<Float(toks[n - 1]) - sx, Float(toks[n]) - sy>> >>]

LineElt(id, geo, start_shape_id, end_shape_id) ==
    [Elt("arrow", id, geo.sx, geo.sy, Abs(geo.ex - geo.sx), Abs(geo.ey - geo.sy))
        EXCEPT !.points = geo.points,
               !.startBinding = start_shape_id,
               !.endBinding = end_shape_id]

\* (mutant) the arrow entry replaces the list instead of extending it.
BindArrowReplacing(els, pos, line_id) ==
    [els EXCEPT ![pos].boundElements = <<[type |-> "arrow", id |-> line_id]>>]
\* Lines 369-374: the arrow recorded on the shape dict found in shape_elt_map.
BindArrow(els, pos, line_id) ==
    [els EXCEPT ![pos].boundElements = Append(@, [type |-> "arrow", id |-> line_id])]

\* (mutants) the arrow left out of the list; the label put before its shape.
AppendedWithoutLine(r, i, t, l) == r \o i \o t
AppendedLabelFirst(r, i, t, l) == t \o r \o i \o l
\* Lines 384-392: what the iteration appends to model.elements.
Appended(r, i, t, l) == r \o i \o t \o l

\* ------------------------------------------------- one iteration, in full
\* The element dicts of lines 130-367, before lines 368-383 link them.
\* (The group's own shape is never an endpoint of the group's own arrow: an
\* endpoint name is a proper part of the id it is parsed from.  So the order
\* of lines 369-374 and 375-383 does not show in any boundElements list.)
RectOf(sc) ==
    IF sc.g_rect = <<>> THEN <<>>
    ELSE <<ShapeElt("rectangle", XcId, Bounds(sc.g_rect[1]))>>
ImageOf(sc) ==
    IF sc.g_image = <<>> THEN <<>>
    ELSE <<[ShapeElt("image", XcId, Bounds(sc.g_image[1]))
              EXCEPT !.fileId = ImageId(sc.g_image[1].href)]>>
TextOf(sc) ==
    IF sc.g_text = <<>> THEN <<>>
    ELSE <<TextElt(TextId, BoundsAfter(sc)[1], FontSize(sc.g_text[1].style))>>

\* (mutant) the start binding resolved from the target's name.
StartShapeIdFromTarget(item) == MapAfter(item)[<<EndpointMatch(item.id)[2]>>]
StartShapeId(item) == MapAfter(item)[<<EndpointMatch(item.id)[1]>>]
EndShapeId(item) == MapAfter(item)[<<EndpointMatch(item.id)[2]>>]

LineOf(item, sc) ==
    IF sc.g_line = <<>> THEN <<>>
    ELSE LET d   == sc.g_line[1].d
             geo == IF d = <<>>
                    THEN StraightLine(ShapeBoundsAfter(sc)[StartShapeId(item)],
                                      ShapeBoundsAfter(sc)[EndShapeId(item)])
                    ELSE CubicPath(ReSplit(d[1]))
         IN  <<LineElt(LineId(sc), geo, StartShapeId(item), EndShapeId(item))>>

\* (mutant) the arrow recorded on its start shape only.
ElementsAfterStartOnly(item, sc) ==
    LET p   == Pair(RectOf(sc), ImageOf(sc), TextOf(sc), GroupId(sc))
        all == elements \o Appended(p[1], p[2], p[3], LineOf(item, sc))
        pos == ShapeEltMapAfter(sc)
    IN  IF sc.g_line = <<>> THEN all
        ELSE BindArrow(all, pos[StartShapeId(item)], LineId(sc))

ElementsAfter(item, sc) ==
    LET p   == Pair(RectOf(sc), ImageOf(sc), TextOf(sc), GroupId(sc))
        all == elements \o Appended(p[1], p[2], p[3], LineOf(item, sc))
        pos == ShapeEltMapAfter(sc)
    IN  IF sc.g_line = <<>> THEN all
        ELSE BindArrow(BindArrow(all, pos[StartShapeId(item)], LineId(sc)),
                       pos[EndShapeId(item)], LineId(sc))

FilesAfter(sc) ==
    IF sc.g_image = <<>> THEN files
    ELSE (ImageId(sc.g_image[1].href) :> sc.g_image[1].href) @@ files

\* --------------------------------------------------------------- actions
Init ==
    /\ pc = "start"
    /\ err = "none"
    /\ doc = <<>>
    /\ svg_xc_map = <<>>
    /\ shape_bounds = <<>>
    /\ shape_elt_map = <<>>
    /\ bounds = <<>>
    /\ elements = <<>>
    /\ origin = <<>>
    /\ files = <<>>
    /\ nextId = 0
    /\ outfile = <<>>

\* root.find(svg_ns + "svg") finds the canvas: the empty model is built.
FindSvg ==
    /\ pc = "start"
    /\ pc' = "loop"
    /\ UNCHANGED <<err, doc, svg_xc_map, shape_bounds, shape_elt_map, bounds,
                   elements, origin, files, nextId, outfile>>

\* root.find returns None: ValueError("Cannot find <svg> tag").
NoSvg ==
    /\ pc = "start"
    /\ pc' = "failed"
    /\ err' = "NoSvg"
    /\ UNCHANGED <<doc, svg_xc_map, shape_bounds, shape_elt_map, bounds,
                   elements, origin, files, nextId, outfile>>

\* A child of <svg> that is no <g>: the body of the loop is skipped.
SkipItem ==
    /\ pc = "loop"
    /\ Len(doc) < MaxItems
    /\ doc' = Append(doc, StyleItem)
    /\ UNCHANGED <<pc, err, svg_xc_map, shape_bounds, shape_elt_map, bounds,
                   elements, origin, files, nextId, outfile>>

\* A <g> child whose iteration runs to its end.
ProcessGroup(item) ==
    /\ pc = "loop"
    /\ Len(doc) < MaxItems
    /\ GroupError(item) = "none"
    /\ LET sc == Scan(item)
           after == ElementsAfter(item, sc)
       IN  /\ doc' = Append(doc, item)
           /\ svg_xc_map' = MapAfter(item)
           /\ shape_bounds' = ShapeBoundsAfter(sc)
           /\ shape_elt_map' = ShapeEltMapAfter(sc)
           /\ bounds' = BoundsAfter(sc)
           /\ elements' = after
           /\ origin' = origin \o [k \in 1..(Len(after) - Len(elements)) |-> Len(doc) + 1]
           /\ files' = FilesAfter(sc)
           /\ nextId' = nextId + IdsDrawn(sc)
    /\ UNCHANGED <<pc, err, outfile>>

\* (mutant) a group whose iteration raises is skipped and the loop goes on.
FailGroupSkipped(item) ==
    /\ pc = "loop"
    /\ Len(doc) < MaxItems
    /\ GroupError(item) # "none"
    /\ doc' = Append(doc, item)
    /\ UNCHANGED <<pc, err, svg_xc_map, shape_bounds, shape_elt_map, bounds,
                   elements, origin, files, nextId, outfile>>

\* A <g> child whose iteration raises: from_svg returns nothing, and the
\* model it was building is dropped with its locals.
FailGroup(item) ==
    /\ pc = "loop"
    /\ Len(doc) < MaxItems
    /\ GroupError(item) # "none"
    /\ pc' = "failed"
    /\ err' = GroupError(item)
    /\ doc' = Append(doc, item)
    /\ UNCHANGED <<svg_xc_map, shape_bounds, shape_elt_map, bounds,
                   elements, origin, files, nextId, outfile>>

\* The loop is over: return Diagram(model).
Return ==
    /\ pc = "loop"
    /\ pc' = "returned"
    /\ UNCHANGED <<err, doc, svg_xc_map, shape_bounds, shape_elt_map, bounds,
                   elements, origin, files, nextId, outfile>>

\* main: diagram.write(outfile, indent=2).
Write ==
    /\ pc = "returned"
    /\ pc' = "written"
    /\ outfile' = <<[elements |-> elements, files |-> files]>>
    /\ UNCHANGED <<err, doc, svg_xc_map, shape_bounds, shape_elt_map, bounds,
                   elements, origin, files, nextId>>

Next ==
    \/ FindSvg
    \/ NoSvg
    \/ SkipItem
    \/ \E item \in Groups : ProcessGroup(item)
    \/ \E item \in Groups : FailGroup(item)
    \/ Return
    \/ Write

Spec == Init /\ [][Next]_vars

\* ------------------------------------------------ vocabulary of the claims
Returned == pc \in {"returned", "written"}
IsShape(e) == e.type \in {"rectangle", "image"}
IsGroupItem(i) == doc[i].tag = "g"
\* Positions in the scene of the elements appended for child i of <svg>.
EltsOf(i) == {k \in 1..Len(elements) : origin[k] = i}
ShapesOf(i) == {k \in EltsOf(i) : IsShape(elements[k])}
LabelsOf(i) == {k \in EltsOf(i) : elements[k].type = "text"}
ArrowsOf(i) == {k \in EltsOf(i) : elements[k].type = "arrow"}
ElementIds == {elements[k].id : k \in 1..Len(elements)}
\* The last group before child i whose id attribute is `name` (0: none).
LastDecl(i, name) ==
    LET js == {j \in 1..(i - 1) : IsGroupItem(j) /\ doc[j].id = <<name>>}
    IN  IF js = {} THEN 0 ELSE CHOOSE j \in js : \A k \in js : k <= j
\* What the children of a group are, read off the document.
HasPath(item) == \E c \in 1..Len(item.children) : item.children[c].tag = "path"
LastPath(item) ==
    LET cs == {c \in 1..Len(item.children) : item.children[c].tag = "path"}
    IN  item.children[CHOOSE c \in cs : \A k \in cs : k <= c]
OnlyPaths(item) == \A c \in 1..Len(item.children) : item.children[c].tag = "path"
\* An edge group: a group whose content is a path and whose id reads (A -> B).
IsEdgeGroup(item) ==
    item.tag = "g" /\ HasPath(item) /\ OnlyPaths(item) /\ EndpointMatch(item.id) # <<>>
\* Curve data that breaks the convention of section 4.3 of the spec.
BreaksConvention(d) ==
    LET t == ReSplit(d) IN Len(t) < 10 \/ t[1] # "M" \/ t[4] # "C"
\* No d attribute, or curve data that follows the convention, numbers included.
PathOk(p) ==
    \/ p.d = <<>>
    \/ /\ ~BreaksConvention(p.d[1])
       /\ LET t == ReSplit(p.d[1])
          IN  \A k \in {2, 3, 5, 6, 9, 10, Len(t) - 1, Len(t)} : IsFloat(t[k])
LastItem == doc[Len(doc)]

\* ------------------------------------------------------------------- C1
\* Every arrow in the scene is bound, at its start and at its end, to the id
\* of a shape appended for the group that last declared that endpoint name
\* before the edge group.
ArrowsBoundToDeclaredShapes ==
    \A k \in 1..Len(elements) :
        elements[k].type = "arrow" =>
            LET m  == EndpointMatch(doc[origin[k]].id)
                ja == LastDecl(origin[k], m[1])
                jb == LastDecl(origin[k], m[2])
            IN  /\ ja > 0 /\ jb > 0
                /\ \E s \in ShapesOf(ja) : elements[s].id = elements[k].startBinding
                /\ \E s \in ShapesOf(jb) : elements[s].id = elements[k].endBinding

\* The run has just failed on an edge group (A -> B) with a sound path whose
\* endpoint names were both declared by earlier groups.
FailedOnDeclaredEdge ==
    /\ pc = "failed" /\ doc # <<>>
    /\ IsEdgeGroup(LastItem)
    /\ PathOk(LastPath(LastItem))
    /\ LastDecl(Len(doc), EndpointMatch(LastItem.id)[1]) > 0
    /\ LastDecl(Len(doc), EndpointMatch(LastItem.id)[2]) > 0

\* C1 as claimed: for an edge group (A -> B) whose names A and B were
\* registered by earlier groups, whatever those groups contained, the
\* connector is created, bound at its start to the id of A's group and at its
\* end to the id of B's group.
C1_AnyRegisteredEndpoints ==
    /\ ~FailedOnDeclaredEdge
    /\ ArrowsBoundToDeclaredShapes

\* C1 as amended: for an edge group (A -> B) with a sound path, when the
\* groups that last declared A and B before it each yielded a shape, the
\* connector is created, bound at its start to the id allocated to A's group
\* and at its end to the id allocated to B's group.
C1_ShapeEndpoints ==
    /\ ArrowsBoundToDeclaredShapes
    /\ FailedOnDeclaredEdge =>
          \/ ShapesOf(LastDecl(Len(doc), EndpointMatch(LastItem.id)[1])) = {}
          \/ ShapesOf(LastDecl(Len(doc), EndpointMatch(LastItem.id)[2])) = {}

\* A scene is returned that holds a connector between two distinct names.
C1_Witness ==
    /\ Returned
    /\ \E k \in 1..Len(elements) :
          /\ elements[k].type = "arrow"
          /\ elements[k].startBinding # elements[k].endBinding
          /\ EndpointMatch(doc[origin[k]].id) = <<"A", "B">>

\* ------------------------------------------------------------------- C2
\* Child i is a group with a path whose id names an endpoint that no earlier
\* group declared.
UndeclaredEndpoint(i) ==
    /\ IsGroupItem(i) /\ HasPath(doc[i])
    /\ EndpointMatch(doc[i].id) # <<>>
    /\ \E n \in 1..2 : LastDecl(i, EndpointMatch(doc[i].id)[n]) = 0

\* C2: an edge group that names an endpoint not declared before it ends the
\* translation at that group: the run has failed, the group is the last
\* child read, no scene is returned and nothing is written.
C2_SinglePass ==
    \A i \in 1..Len(doc) :
        UndeclaredEndpoint(i) => pc = "failed" /\ i = Len(doc) /\ outfile = <<>>

\* The run failed on an edge to a name that was not declared, after a unit.
C2_Witness ==
    /\ Len(doc) = 2 /\ UndeclaredEndpoint(2) /\ IsEdgeGroup(doc[2])
    /\ err = "UnresolvedReference"
    /\ LastDecl(2, "A") = 1 /\ Len(elements) > 0

\* ------------------------------------------------------------------- C3
\* C3: in a returned scene every id that an element refers to resolves: a
\* label's container, an arrow's two bindings and every entry of a shape's
\* boundElements are ids of elements of the scene, and an image's fileId is
\* a key of the scene's files.
C3_ReferencesResolve ==
    Returned =>
        \A k \in 1..Len(elements) :
            LET e == elements[k]
            IN  /\ e.type = "text" /\ e.containerId # NoId => e.containerId \in ElementIds
                /\ e.type = "arrow" =>
                      e.startBinding \in ElementIds /\ e.endBinding \in ElementIds
                /\ \A b \in 1..Len(e.boundElements) : e.boundElements[b].id \in ElementIds
                /\ e.type = "image" => e.fileId \in DOMAIN files

\* A returned scene with a contained label, an image and a bound arrow.
C3_Witness ==
    /\ Returned
    /\ \E k \in 1..Len(elements) : elements[k].containerId # NoId
    /\ \E k \in 1..Len(elements) : elements[k].type = "image"
    /\ \E k \in 1..Len(elements) :
          elements[k].type = "arrow" /\ elements[k].startBinding # elements[k].endBinding

\* ------------------------------------------------------------------- C4
\* The entries of a boundElements list of one type, in order.
EntriesOfType(e, type) == SelectSeq(e.boundElements, LAMBDA b : b.type = type)

\* C4: in the final scene, a unit group's rectangle that came with a label
\* lists exactly one text entry, the id of that label, and the label's
\* containerId is the rectangle's id, whatever edge groups came later.
C4_LabelBoundToRectangle ==
    Returned =>
        \A i \in 1..Len(doc) :
            (IsGroupItem(i) /\ Scan(doc[i]).g_rect # <<>> /\ Scan(doc[i]).g_text # <<>>) =>
                \E r \in EltsOf(i), t \in EltsOf(i) :
                    /\ elements[r].type = "rectangle"
                    /\ elements[t].type = "text"
                    /\ Cardinality(LabelsOf(i)) = 1
                    /\ EntriesOfType(elements[r], "text") = <<[type |-> "text", id |-> elements[t].id]>>
                    /\ elements[t].containerId = elements[r].id

\* A final scene where a labelled rectangle is the endpoint of a later edge.
C4_Witness ==
    /\ Returned
    /\ \E r \in 1..Len(elements) :
          /\ elements[r].type = "rectangle"
          /\ Len(EntriesOfType(elements[r], "text")) = 1
          /\ Len(EntriesOfType(elements[r], "arrow")) >= 1

\* ------------------------------------------------------------------- C5
\* Child i is a unit group with an image and a label (and, with noRect, no
\* rectangle), read off the document.
ImageAndLabel(i, noRect) ==
    /\ IsGroupItem(i)
    /\ LET sc == Scan(doc[i])
       IN  /\ sc.g_image # <<>> /\ sc.g_text # <<>>
           /\ noRect => sc.g_rect = <<>>
\* Image m and label t carry one and the same group id, which is no
\* element's id and is carried by no other element.
ShareNewGroupId(m, t) ==
    /\ Len(elements[m].groupIds) = 1
    /\ elements[t].groupIds = elements[m].groupIds
    /\ elements[m].groupIds[1] \notin ElementIds
    /\ \A k \in 1..Len(elements) :
          k \notin {m, t} => elements[m].groupIds[1] \notin
                                {elements[k].groupIds[n] : n \in 1..Len(elements[k].groupIds)}
\* The label's y exceeds the image's y plus half its height (half pixels).
LabelBelowMiddle(m, t) == 2 * elements[t].y > 2 * elements[m].y + elements[m].height

\* C5 as claimed: an image and its label share one new group id, and for
\* every image y, image height and font size the label's y is strictly
\* greater than the image's y plus half the image's height.
C5_LabelBelowAnyImage ==
    \A i \in 1..Len(doc) :
        ImageAndLabel(i, FALSE) =>
            \E m \in EltsOf(i), t \in EltsOf(i) :
                /\ elements[m].type = "image" /\ elements[t].type = "text"
                /\ ShareNewGroupId(m, t)
                /\ LabelBelowMiddle(m, t)

\* C5 as amended: when the group has an image, a label and no rectangle,
\* the two share one new group id and the label's y is the image's y plus
\* the image's height minus the margin of 4, which is strictly greater than
\* the image's y plus half its height exactly when the height exceeds 8.
\* (When the group also yields a rectangle, the label is bound to the
\* rectangle: neither grouped with the image nor moved below it.)
C5_LabelAtImageBottom ==
    \A i \in 1..Len(doc) :
        ImageAndLabel(i, FALSE) =>
            \E m \in EltsOf(i), t \in EltsOf(i) :
                /\ elements[m].type = "image" /\ elements[t].type = "text"
                /\ IF ImageAndLabel(i, TRUE)
                   THEN /\ ShareNewGroupId(m, t)
                        /\ elements[t].y = elements[m].y + elements[m].height - HP(4)
                        /\ LabelBelowMiddle(m, t) <=> elements[m].height > HP(8)
                   ELSE /\ elements[m].groupIds = <<>> /\ elements[t].groupIds = <<>>
                        /\ elements[t].containerId = elements[m].id
                        /\ 2 * elements[t].y = 2 * elements[m].y + elements[m].height
                                                - 2 * HP(margin) - 2 * elements[t].fontSize

\* A scene with a labelled image taller than 8 and one that is 8 tall.
C5_Witness ==
    /\ \E i \in 1..Len(doc) : \E m \in EltsOf(i) :
          ImageAndLabel(i, TRUE) /\ elements[m].type = "image" /\ elements[m].height > HP(8)
    /\ \E i \in 1..Len(doc) : \E m \in EltsOf(i) :
          ImageAndLabel(i, TRUE) /\ elements[m].type = "image" /\ elements[m].height = HP(8)

\* ------------------------------------------------------------------- C6
\* C6: every arrow of the scene has (0,0) as its first point, with curve
\* data and with the straight-line fallback alike.
C6_FirstPointIsOrigin ==
    \A k \in 1..Len(elements) :
        elements[k].type = "arrow" => elements[k].points[1] = <<0, 0>>

\* ------------------------------------------------------------------- C7
\* The shape a binding to `id` is recorded on: the dict shape_elt_map holds.
ShapeFor(id) == elements[shape_elt_map[id]]
CountOf(seq, x) == Cardinality({n \in 1..Len(seq) : seq[n] = x})
ArrowEntry(id) == [type |-> "arrow", id |-> id]

\* Every shape holds, for each arrow of the scene, one entry if the arrow
\* starts at it plus one if the arrow ends at it, and no other arrow entry.
ArrowEntriesMatchArrows ==
    \A id \in DOMAIN shape_elt_map :
        /\ \A k \in 1..Len(elements) :
              elements[k].type = "arrow" =>
                  CountOf(ShapeFor(id).boundElements, ArrowEntry(elements[k].id))
                    = (IF elements[k].startBinding = id THEN 1 ELSE 0)
                      + (IF elements[k].endBinding = id THEN 1 ELSE 0)
        /\ \A b \in 1..Len(ShapeFor(id).boundElements) :
              ShapeFor(id).boundElements[b].type = "arrow" =>
                  \E k \in 1..Len(elements) :
                      elements[k].type = "arrow"
                      /\ elements[k].id = ShapeFor(id).boundElements[b].id

\* A step changes an element that exists only by extending its
\* boundElements, and only with the entry of an arrow the step creates: one
\* entry on the arrow's start shape and one on its end shape.
OnlyArrowEntriesAppended ==
    /\ Len(elements') >= Len(elements)
    /\ \A k \in 1..Len(elements) :
          LET new == {a \in (Len(elements) + 1)..Len(elements') : elements'[a].type = "arrow"}
              n(a) == (IF shape_elt_map'[elements'[a].startBinding] = k THEN 1 ELSE 0)
                      + (IF shape_elt_map'[elements'[a].endBinding] = k THEN 1 ELSE 0)
          IN  /\ [elements'[k] EXCEPT !.boundElements = elements[k].boundElements] = elements[k]
              /\ Cardinality(new) <= 1
              /\ new = {} => elements'[k].boundElements = elements[k].boundElements
              /\ \A a \in new :
                    elements'[k].boundElements =
                        elements[k].boundElements
                          \o [j \in 1..n(a) |-> ArrowEntry(elements'[a].id)]

\* C7: creating a connector appends one arrow entry to the source shape's
\* boundElements and one to the target shape's and changes nothing else in
\* an existing element; entries are never removed or replaced, so a shape
\* holds exactly one entry per connector that starts at it and one per
\* connector that ends at it (k entries after k connectors of one pair).
C7_ArrowEntriesAccumulate ==
    []ArrowEntriesMatchArrows /\ [][OnlyArrowEntriesAppended]_vars

\* Two connectors between the same ordered pair of distinct shapes, each of
\* the two shapes holding two arrow entries.
C7_Witness ==
    \E a \in 1..Len(elements), b \in 1..Len(elements) :
        /\ a < b
        /\ elements[a].type = "arrow" /\ elements[b].type = "arrow"
        /\ elements[a].startBinding = elements[b].startBinding
        /\ elements[a].endBinding = elements[b].endBinding
        /\ elements[a].startBinding # elements[a].endBinding
        /\ Len(EntriesOfType(ShapeFor(elements[a].startBinding), "arrow")) = 2
        /\ Len(EntriesOfType(ShapeFor(elements[a].endBinding), "arrow")) = 2

\* ------------------------------------------------------------------- C8
Rank(e) == IF IsShape(e) THEN 1 ELSE IF e.type = "text" THEN 2 ELSE 3
\* Child i was read and its iteration ran to its end.
Completed(i) == i < Len(doc) \/ pc # "failed"

\* C8: the element list is in encounter order: elements of an earlier group
\* precede those of a later one, within a group the order is shape, label,
\* connector, every completed group contributes what it holds, and a child
\* that is no group contributes nothing and does not fail the run.
C8_EncounterOrder ==
    /\ Len(origin) = Len(elements)
    /\ \A p \in 1..(Len(elements) - 1) :
          /\ origin[p] <= origin[p + 1]
          /\ origin[p] = origin[p + 1] => Rank(elements[p]) <= Rank(elements[p + 1])
    /\ \A k \in 1..Len(elements) : origin[k] \in 1..Len(doc) /\ IsGroupItem(origin[k])
    /\ \A i \in 1..Len(doc) :
          (IsGroupItem(i) /\ Completed(i)) =>
              LET sc == Scan(doc[i])
              IN  /\ (\E k \in EltsOf(i) : IsShape(elements[k])) <=> HasShape(sc)
                  /\ (\E k \in EltsOf(i) : elements[k].type = "text") <=> sc.g_text # <<>>
                  /\ (\E k \in EltsOf(i) : elements[k].type = "arrow") <=> sc.g_line # <<>>
    /\ (pc = "failed" /\ doc # <<>>) => IsGroupItem(Len(doc))

\* A returned scene of a labelled shape, a child that is no group, a second
\* shape and a connector.
C8_Witness ==
    /\ Returned /\ Len(doc) = 4
    /\ ShapesOf(1) # {} /\ LabelsOf(1) # {}
    /\ ~IsGroupItem(2)
    /\ ShapesOf(3) # {}
    /\ ArrowsOf(4) # {}

\* ------------------------------------------------------------------- C9
\* Child i is a group whose path carries curve data that tokenizes to fewer
\* than 10 items or lacks "M" as item 0 or "C" as item 3.
BadCurve(i) ==
    /\ IsGroupItem(i) /\ HasPath(doc[i])
    /\ LastPath(doc[i]).d # <<>>
    /\ BreaksConvention(LastPath(doc[i]).d[1])

LabelFollowsShape(t, s) ==
    LET shift == IF elements[t].groupIds = <<>> THEN 0
                 ELSE elements[s].height \div 2 + elements[t].fontSize
    IN  /\ elements[t].x = elements[s].x
        /\ elements[t].width = elements[s].width + HP(elements[t].fontSize)
        /\ 2 * (elements[t].y - shift)
             = 2 * elements[s].y + elements[s].height - 2 * HP(margin) - 2 * elements[t].fontSize

\* C11: every label of the scene takes its x, y and width from a shape of
\* its own top-level group, never from the shape of a group processed
\* earlier, also when its group has a label and no shape.
C11_LabelFromOwnShape ==
    \A t \in 1..Len(elements) :
        elements[t].type = "text" =>
            \E s \in ShapesOf(origin[t]) : LabelFollowsShape(t, s)

====
